---------------------------- MODULE Spec2Model ----------------------------
(***************************************************************************)
(* Connect-Four MCTS engine of J_Hendricks_MCT_AI_Visualizer.py.           *)
(*                                                                         *)
(* Boards are numpy arrays, i.e. mutable objects handled by reference.     *)
(* They live in `heap` (a sequence of grids); a board value held by the    *)
(* program is an index into it.  ndarray.copy() allocates a new grid.      *)
(* Tree nodes live in the arena `nodes`; a node is named by its index and  *)
(* the root is node 1.  Python's None is 0 for a node, a piece or a board  *)
(* reference, and NoneRow / NoneMove for a row / a column.                 *)
(***************************************************************************)
EXTENDS Integers, Sequences, FiniteSets, TLC

\* ------------------------------------------------------------- constants
ROW_COUNT == 6
COLUMN_COUNT == 7
EMPTY == 0
PLAYER_PIECE == 1
AI_PIECE == 2
PLAYER == 0
AI == 1

\* MARMS (both front-ends), money in dollars
START_EQ == 10000
TARGET_EQ == 11000
DEATH_EQ == 9000
\* marms_visualizer_4_final.py: RISK_AMOUNT = START_EQ * RISK_PERCENT
RISK_AMOUNT == 100
WIN_MULT == 2
LOSS_MULT == 1
\* marms_sl.py
LOSS_MULT_DEFAULT == 1

\* None, where the program's value is an integer
NoneRow == 0 - 1
NoneMove == 0 - 1
NonePiece == 0
NoneNode == 0

\* ---------------------------------------------------------------- bounds
\* largest iteration count passed to MCTS_Search
MaxIter == 4
\* largest number of empty cells at the top of one column of a root board
MaxGap == 2
\* largest number of empty cells of a root board
MaxEmpty == 4
\* longest run of one piece laid on a board handed to a board function
MaxRun == 4
\* most iterations of a search that is run twice
MaxReplayIter == 3
\* the iteration count of the searches of a game
MaxGameIter == 2
\* largest number of empty cells of the board a game is taken up at
MaxGameEmpty == 3
\* MARMS: the trades an account may make (MAX_TRADES, 500 in the program)
MAX_TRADES == 12
\* MARMS: the accounts of a simulation (NUM_ACCOUNTS, 10 in the program)
NUM_ACCOUNTS == 2

\* ------------------------------------------------------------- sequences
Range(n) == 0 .. (n - 1)

Elems(s) == {s[i] : i \in 1 .. Len(s)}

Min(S) == CHOOSE x \in S : \A y \in S : x <= y

Max(S) == CHOOSE x \in S : \A y \in S : y <= x

\* a remove that leaves the list as it was
ListRemoveNone(s, x) == s

\* list.remove(x): drops the first occurrence
RECURSIVE ListRemove(_, _)
ListRemove(s, x) ==
  IF s = <<>> THEN <<>>
  ELSE IF Head(s) = x THEN Tail(s)
  ELSE <<Head(s)>> \o ListRemove(Tail(s), x)

\* d[k] = v on a dict kept as a sequence of [move, node] in insertion order
DictSet(d, k, v) ==
  IF \E i \in 1 .. Len(d) : d[i].move = k
  THEN [i \in 1 .. Len(d) |-> IF d[i].move = k THEN [move |-> k, node |-> v] ELSE d[i]]
  ELSE Append(d, [move |-> k, node |-> v])

\* the position of the last element among those of greatest key
MaxLast(keys) ==
  CHOOSE i \in 1 .. Len(keys) :
    /\ \A j \in 1 .. Len(keys) : keys[j] <= keys[i]
    /\ \A j \in (i + 1) .. Len(keys) : keys[j] < keys[i]

\* max(seq, key=...): the position of the first element among those of
\* greatest key, given the keys in the order of seq
MaxFirst(keys) ==
  CHOOSE i \in 1 .. Len(keys) :
    /\ \A j \in 1 .. Len(keys) : keys[j] <= keys[i]
    /\ \A j \in 1 .. (i - 1) : keys[j] < keys[i]

\* ----------------------------------------------------------- board rules
create_board == [r \in Range(ROW_COUNT) |-> [c \in Range(COLUMN_COUNT) |-> EMPTY]]

\* board[row][col] = piece.  With row = None numpy indexes a new leading
\* axis of length 1: column 0 then names the whole grid (all of it is set),
\* any other column raises IndexError (DropRaises) and sets nothing.
DropRaises(row, col) == row = NoneRow /\ col # 0

drop_piece(board, row, col, piece) ==
  IF row = NoneRow
  THEN IF col = 0
       THEN [r \in Range(ROW_COUNT) |-> [c \in Range(COLUMN_COUNT) |-> piece]]
       ELSE board
  ELSE [board EXCEPT ![row][col] = piece]

\* the same test one row too low
is_valid_location_below(board, col) == board[ROW_COUNT - 2][col] = 0

is_valid_location(board, col) == board[ROW_COUNT - 1][col] = 0

\* the same scan from the top row down
get_next_open_row_top(board, col) ==
  LET open == {r \in Range(ROW_COUNT) : board[r][col] = 0}
  IN  IF open = {} THEN NoneRow ELSE Max(open)

get_next_open_row(board, col) ==
  LET open == {r \in Range(ROW_COUNT) : board[r][col] = 0}
  IN  IF open = {} THEN NoneRow ELSE Min(open)

\* the same scan with the last loop one row short: range(3, ROW_COUNT-1)
winning_move_short(board, piece) ==
  \/ \E c \in Range(COLUMN_COUNT - 3) : \E r \in Range(ROW_COUNT) :
       /\ board[r][c] = piece /\ board[r][c + 1] = piece
       /\ board[r][c + 2] = piece /\ board[r][c + 3] = piece
  \/ \E c \in Range(COLUMN_COUNT) : \E r \in Range(ROW_COUNT - 3) :
       /\ board[r][c] = piece /\ board[r + 1][c] = piece
       /\ board[r + 2][c] = piece /\ board[r + 3][c] = piece
  \/ \E c \in Range(COLUMN_COUNT - 3) : \E r \in Range(ROW_COUNT - 3) :
       /\ board[r][c] = piece /\ board[r + 1][c + 1] = piece
       /\ board[r + 2][c + 2] = piece /\ board[r + 3][c + 3] = piece
  \/ \E c \in Range(COLUMN_COUNT - 3) : \E r \in 3 .. (ROW_COUNT - 2) :
       /\ board[r][c] = piece /\ board[r - 1][c + 1] = piece
       /\ board[r - 2][c + 2] = piece /\ board[r - 3][c + 3] = piece

winning_move(board, piece) ==
  \/ \E c \in Range(COLUMN_COUNT - 3) : \E r \in Range(ROW_COUNT) :
       /\ board[r][c] = piece /\ board[r][c + 1] = piece
       /\ board[r][c + 2] = piece /\ board[r][c + 3] = piece
  \/ \E c \in Range(COLUMN_COUNT) : \E r \in Range(ROW_COUNT - 3) :
       /\ board[r][c] = piece /\ board[r + 1][c] = piece
       /\ board[r + 2][c] = piece /\ board[r + 3][c] = piece
  \/ \E c \in Range(COLUMN_COUNT - 3) : \E r \in Range(ROW_COUNT - 3) :
       /\ board[r][c] = piece /\ board[r + 1][c + 1] = piece
       /\ board[r + 2][c + 2] = piece /\ board[r + 3][c + 3] = piece
  \/ \E c \in Range(COLUMN_COUNT - 3) : \E r \in 3 .. (ROW_COUNT - 1) :
       /\ board[r][c] = piece /\ board[r - 1][c + 1] = piece
       /\ board[r - 2][c + 2] = piece /\ board[r - 3][c + 3] = piece

RECURSIVE valid_from(_, _)
valid_from(board, col) ==
  IF col >= COLUMN_COUNT THEN <<>>
  ELSE (IF is_valid_location(board, col) THEN <<col>> ELSE <<>>)
         \o valid_from(board, col + 1)

\* the same loop starting at column 1: range(1, COLUMN_COUNT)
get_valid_locations_from_one(board) == valid_from(board, 1)

get_valid_locations(board) == valid_from(board, 0)

\* the same test without the two winning_move checks
is_terminal_node_full(board) == Len(get_valid_locations(board)) = 0

is_terminal_node(board) ==
  \/ winning_move(board, PLAYER_PIECE)
  \/ winning_move(board, AI_PIECE)
  \/ Len(get_valid_locations(board)) = 0

count_pieces(board) ==
  Cardinality({rc \in Range(ROW_COUNT) \X Range(COLUMN_COUNT) : board[rc[1]][rc[2]] # 0})


\* ------------------------------------------------------------ heap, tree
VARIABLES
  heap,        \* the board objects; heap[root_board] is the caller's board
  iterations,  \* the argument of MCTS_Search
  nodes,       \* the arena of tree nodes; the root is node 1
  it,          \* iterations of the main loop completed
  node,        \* the local `node` of MCTS_Search
  pc,          \* position in MCTS_Search
  b,           \* the local `b` of simulate_random_playout (a board reference)
  next_player, \* the local `next_player` of simulate_random_playout
  winner,      \* what simulate_random_playout returned
  result,      \* what MCTS_Search returned: [col, stats]
  fboard,      \* a board handed to one of the board functions called alone
  fret,        \* what that call returned: [fn, piece, value]
  rng,         \* the state of the module `random`: [mode, tape, pos]
  first,       \* what an earlier call of MCTS_Search on the same board returned
  turn,        \* the game loop's `turn`: PLAYER or AI
  game_over,   \* the game loop's `game_over`
  accounts,    \* MARMS: the list `accounts`
  sim          \* MARMS: the front-end, its parameters, flags and position

searchVars == <<heap, iterations, nodes, it, node, pc, b, next_player, winner, result>>

\* the state of a board function called alone
fnVars == <<fboard, fret>>

\* the random source and the caller's record of an earlier call
replayVars == <<rng, first>>

\* the state of the game loop, next to its board heap[root_board]
gameVars == <<turn, game_over>>

\* the state of a MARMS simulation
marmsVars == <<accounts, sim>>

vars == <<searchVars, fnVars, replayVars, gameVars, marmsVars>>

\* the caller's board is the first object allocated
root_board == 1
root == 1
NoResult == [col |-> NoneMove, stats |-> <<>>]
NoReturn == [fn |-> "", piece |-> NonePiece, value |-> <<>>]

\* no MARMS simulation
NoSim == [frontend |-> "", win_mult |-> 0, risk_percent |-> 0, paused |-> FALSE,
          is_running |-> FALSE, all_finished |-> FALSE, pc |-> "", acc |-> 0]

\* The module `random` as a source of draws.  In mode "free" a draw is
\* arbitrary; in mode "record" it is arbitrary and written to the tape; in
\* mode "replay" it is read from the tape (the source re-seeded).
FreeSource == [mode |-> "free", tape |-> <<>>, pos |-> 1]

\* a source that does not read its tape
PicksFree(r, n) == 1 .. n

\* the positions random.choice may draw in a list of n elements
Picks(r, n) ==
  IF r.mode = "replay" /\ r.pos <= Len(r.tape)
  THEN {((r.tape[r.pos] - 1) % n) + 1}
  ELSE 1 .. n

\* the source after the draw of position i
Drawn(r, i) ==
  IF r.mode = "record" THEN [r EXCEPT !.tape = Append(@, i)]
  ELSE IF r.mode = "replay" THEN [r EXCEPT !.pos = @ + 1]
  ELSE r

\* random.choice(seq): the elements it may return
random_choice(r, seq) == {seq[i] : i \in Picks(r, Len(seq))}

\* the position of x in a list without repetitions
IndexOf(seq, x) == CHOOSE i \in 1 .. Len(seq) : seq[i] = x

\* ndarray.copy(): a new object with the same cells.  BoardAlias is the
\* same call returning the array itself.
BoardAlias(h, ref) == [heap |-> h, ref |-> ref]

BoardCopy(h, ref) == [heap |-> Append(h, h[ref]), ref |-> Len(h) + 1]

\* a local board going out of scope: collected unless something else holds it
Release(h, ns, ref) ==
  IF ref = Len(h) /\ ref # root_board /\ \A i \in 1 .. Len(ns) : ns[i].board # ref
  THEN SubSeq(h, 1, Len(h) - 1)
  ELSE h

\* Node.__init__
Node(h, board, parent, move, player) ==
  [board |-> board, parent |-> parent, children |-> <<>>,
   untried_moves |-> get_valid_locations(h[board]),
   visits |-> 0, wins |-> 0, move |-> move, player |-> player]

\* the same test one move early: len(untried_moves) <= 1
is_fully_expanded_early(n) == Len(n.untried_moves) <= 1

is_fully_expanded(n) == Len(n.untried_moves) = 0

\* ------------------------------------------------------------------- UCT
\* UCT scores are compared in fixed point, 6 decimals.  LnTable[n] is
\* ln(n) * 10^8 rounded; Sqrt6(x) is sqrt(x / 10^8) * 10^6.  For every
\* parent visit count up to Len(LnTable) and every pair of children
\* (0 <= wins <= visits <= parent visits) the fixed-point scores order, and
\* tie, exactly as the program's doubles do.
UCT_C10 == 14
UctInf == 2000000000
LnTable == <<0, 69314718, 109861229, 138629436, 160943791, 179175947,
             194591015, 207944154, 219722458, 230258509, 239789527,
             248490665, 256494936, 263905733, 270805020, 277258872>>

RECURSIVE ISqrtBetween(_, _, _)
ISqrtBetween(x, lo, hi) ==
  IF lo >= hi THEN lo
  ELSE LET mid == (lo + hi + 1) \div 2
       IN  IF mid * mid <= x THEN ISqrtBetween(x, mid, hi)
           ELSE ISqrtBetween(x, lo, mid - 1)

Sqrt6(x) ==
  LET s == ISqrtBetween(x, 0, 46340)
  IN  IF s = 0 THEN 0 ELSE 100 * s + (100 * (x - s * s)) \div (2 * s)

\* one child's score in best_uct_child
Uct(parentVisits, child) ==
  IF child.visits = 0 THEN UctInf
  ELSE (child.wins * 1000000) \div child.visits
       + (UCT_C10 * Sqrt6(LnTable[parentVisits] \div child.visits)) \div 10

\* best_uct_child raises when math.log gets 0 (a visited child under an
\* unvisited parent) or when max gets no children
UctRaises(ns, id) ==
  \/ Len(ns[id].children) = 0
  \/ ns[id].visits = 0 /\ \E i \in 1 .. Len(ns[id].children) :
                            ns[ns[id].children[i].node].visits # 0

UctKey(ns, id, entry) == Uct(ns[id].visits, ns[entry.node])

best_uct_child(ns, id) ==
  LET kids == ns[id].children
  IN  kids[MaxFirst([i \in 1 .. Len(kids) |-> UctKey(ns, id, kids[i])])].node

\* the same choice keyed by wins
best_child_by_wins(ns, id) ==
  LET kids == ns[id].children
  IN  kids[MaxFirst([i \in 1 .. Len(kids) |-> ns[kids[i].node].wins])].node

best_child_by_visits(ns, id) ==
  LET kids == ns[id].children
  IN  kids[MaxFirst([i \in 1 .. Len(kids) |-> ns[kids[i].node].visits])].node

\* the same walk stopping below the root (while node.parent is not None)
RECURSIVE backpropagate_below_root(_, _, _)
backpropagate_below_root(ns, id, w) ==
  IF id = NoneNode \/ ns[id].parent = NoneNode THEN ns
  ELSE backpropagate_below_root(
         [ns EXCEPT ![id].visits = @ + 1,
                    ![id].wins = IF w # NonePiece /\ ns[id].player = w THEN @ + 1 ELSE @],
         ns[id].parent, w)

\* the same walk crediting every node of the path whenever there is a winner
RECURSIVE backpropagate_any_winner(_, _, _)
backpropagate_any_winner(ns, id, w) ==
  IF id = NoneNode THEN ns
  ELSE backpropagate_any_winner(
         [ns EXCEPT ![id].visits = @ + 1,
                    ![id].wins = IF w # NonePiece THEN @ + 1 ELSE @],
         ns[id].parent, w)

\* the walk starting at the parent of node id
backpropagate_from_parent(ns, id, w) ==
  IF id = NoneNode THEN ns ELSE backpropagate_below_root(ns, ns[id].parent, w)

\* the update of node id alone, without the walk
backpropagate_leaf_only(ns, id, w) ==
  IF id = NoneNode THEN ns
  ELSE [ns EXCEPT ![id].visits = @ + 1,
                  ![id].wins = IF w # NonePiece /\ ns[id].player = w THEN @ + 1 ELSE @]

\* backpropagate: the arena after the walk from node id up to the root
RECURSIVE backpropagate(_, _, _)
backpropagate(ns, id, w) ==
  IF id = NoneNode THEN ns
  ELSE backpropagate(
         [ns EXCEPT ![id].visits = @ + 1,
                    ![id].wins = IF w # NonePiece /\ ns[id].player = w THEN @ + 1 ELSE @],
         ns[id].parent, w)

\* ----------------------------------------------------------- root boards
\* A full board without four in a row: pieces alternate along every row and
\* change every second row.
Pattern(r, c) == IF ((r \div 2) + c) % 2 = 0 THEN PLAYER_PIECE ELSE AI_PIECE

\* the columns of a root board that may have empty cells
OpenColumns == {0, 1, 2}

\* The board whose open columns lack their top gap[c] cells; the "won" kind
\* has AI_PIECE on row 0, columns 3 .. 6.
RootOf(kind, gap) ==
  [r \in Range(ROW_COUNT) |-> [c \in Range(COLUMN_COUNT) |->
     IF c \in OpenColumns /\ r >= ROW_COUNT - gap[c] THEN EMPTY
     ELSE IF kind = "won" /\ r = 0 /\ c >= 3 THEN AI_PIECE
     ELSE Pattern(r, c)]]

RECURSIVE SumOver(_, _)
SumOver(f, S) ==
  IF S = {} THEN 0
  ELSE LET x == CHOOSE y \in S : TRUE IN f[x] + SumOver(f, S \ {x})

Gaps == {gap \in [OpenColumns -> 0 .. MaxGap] : SumOver(gap, OpenColumns) <= MaxEmpty}

RootBoards == {RootOf(kind, gap) : kind \in {"open", "won"}, gap \in Gaps}

\* ------------------------------------------------------------ MCTS_Search
\* a Python float that is the quotient of two integers
Quot(n, d) == [num |-> n, den |-> d]
Zero == Quot(0, 1)

Init ==
  /\ heap \in {<<rb>> : rb \in RootBoards}
  /\ iterations \in 0 .. MaxIter
  /\ nodes = <<>>
  /\ it = 0
  /\ node = NoneNode
  /\ pc = "call"
  /\ b = 0
  /\ next_player = NonePiece
  /\ winner = NonePiece
  /\ result = NoResult
  /\ fboard = create_board
  /\ fret = NoReturn
  /\ rng = FreeSource
  /\ first = NoResult
  /\ turn = AI
  /\ game_over = FALSE
  /\ accounts = <<>>
  /\ sim = NoSim

\* where the for loop goes with k iterations done
LoopHead(k) == IF k < iterations THEN "select" ELSE "choose"

\* root = Node(root_board.copy(), parent=None, move=None, player=None)
Call ==
  /\ pc = "call"
  /\ LET cp == BoardCopy(heap, root_board)
     IN  /\ heap' = cp.heap
         /\ nodes' = <<Node(cp.heap, cp.ref, NoneNode, NoneMove, NonePiece)>>
  /\ it' = 0
  /\ node' = IF 0 < iterations THEN root ELSE NoneNode
  /\ pc' = LoopHead(0)
  /\ UNCHANGED <<iterations, b, next_player, winner, result, fnVars, replayVars, gameVars, marmsVars>>

\* the condition of the selection loop
Descends(h, ns, id) == ~is_terminal_node(h[ns[id].board]) /\ is_fully_expanded(ns[id])

\* node = node.best_uct_child()
SelectDescend ==
  /\ pc = "select"
  /\ Descends(heap, nodes, node)
  /\ IF UctRaises(nodes, node)
     THEN pc' = "error" /\ node' = node
     ELSE pc' = "select" /\ node' = best_uct_child(nodes, node)
  /\ UNCHANGED <<heap, iterations, nodes, it, b, next_player, winner, result, fnVars, replayVars, gameVars, marmsVars>>

SelectStop ==
  /\ pc = "select"
  /\ ~Descends(heap, nodes, node)
  /\ pc' = "expand"
  /\ UNCHANGED <<heap, iterations, nodes, it, node, b, next_player, winner, result, fnVars, replayVars, gameVars, marmsVars>>

\* the parity rule the other way round
ToMoveOdd(board) == IF count_pieces(board) % 2 = 0 THEN PLAYER_PIECE ELSE AI_PIECE

\* the piece of the side to move, by the parity of the piece count
ToMove(board) == IF count_pieces(board) % 2 = 0 THEN AI_PIECE ELSE PLAYER_PIECE

\* node = node.expand()
Expand ==
  /\ pc = "expand"
  /\ ~is_terminal_node(heap[nodes[node].board])
  /\ ~is_fully_expanded(nodes[node])
  /\ \E move \in random_choice(rng, nodes[node].untried_moves) :
       /\ rng' = Drawn(rng, IndexOf(nodes[node].untried_moves, move))
       /\ LET row == get_next_open_row(heap[nodes[node].board], move)
              cp == BoardCopy(heap, nodes[node].board)
              next_player_piece == ToMove(cp.heap[cp.ref])
              h2 == [cp.heap EXCEPT ![cp.ref] = drop_piece(@, row, move, next_player_piece)]
              child == Len(nodes) + 1
          IN  IF DropRaises(row, move)
              THEN /\ pc' = "error"
                   /\ heap' = cp.heap
                   /\ UNCHANGED <<nodes, node>>
              ELSE /\ pc' = "simulate"
                   /\ heap' = h2
                   /\ nodes' = Append(
                        [nodes EXCEPT ![node].untried_moves = ListRemove(@, move),
                                      ![node].children = DictSet(@, move, child)],
                        Node(h2, cp.ref, node, move, next_player_piece))
                   /\ node' = child
  /\ UNCHANGED <<iterations, it, b, next_player, winner, result, fnVars, first, gameVars, marmsVars>>

SkipExpansion ==
  /\ pc = "expand"
  /\ is_terminal_node(heap[nodes[node].board]) \/ is_fully_expanded(nodes[node])
  /\ pc' = "simulate"
  /\ UNCHANGED <<heap, iterations, nodes, it, node, b, next_player, winner, result, fnVars, replayVars, gameVars, marmsVars>>

\* simulate_random_playout(node.board, starting_player_piece=next_player), up
\* to the loop
StartPlayout ==
  /\ pc = "simulate"
  /\ LET starting_player_piece == ToMove(heap[nodes[node].board])
         cp == BoardCopy(heap, nodes[node].board)
     IN  /\ heap' = cp.heap
         /\ b' = cp.ref
         /\ next_player' = IF starting_player_piece = NonePiece
                           THEN ToMove(cp.heap[cp.ref])
                           ELSE starting_player_piece
  /\ pc' = "rollout"
  /\ UNCHANGED <<iterations, nodes, it, node, winner, result, fnVars, replayVars, gameVars, marmsVars>>

\* the same test without the look for a win of PLAYER_PIECE
PlayoutOutcomeAIOnly(bd) ==
  IF winning_move(bd, AI_PIECE) THEN AI_PIECE
  ELSE IF Len(get_valid_locations(bd)) = 0 THEN NonePiece
  ELSE NoneMove

\* what the playout loop returns on board bd, or "go on"
PlayoutOutcome(bd) ==
  IF winning_move(bd, PLAYER_PIECE) THEN PLAYER_PIECE
  ELSE IF winning_move(bd, AI_PIECE) THEN AI_PIECE
  ELSE IF Len(get_valid_locations(bd)) = 0 THEN NonePiece
  ELSE NoneMove

RolloutReturn ==
  /\ pc = "rollout"
  /\ PlayoutOutcome(heap[b]) # NoneMove
  /\ winner' = PlayoutOutcome(heap[b])
  /\ heap' = Release(heap, nodes, b)
  /\ b' = 0
  /\ next_player' = NonePiece
  /\ pc' = "backprop"
  /\ UNCHANGED <<iterations, nodes, it, node, result, fnVars, replayVars, gameVars, marmsVars>>

RolloutDrop ==
  /\ pc = "rollout"
  /\ PlayoutOutcome(heap[b]) = NoneMove
  /\ \E move \in random_choice(rng, get_valid_locations(heap[b])) :
       /\ rng' = Drawn(rng, IndexOf(get_valid_locations(heap[b]), move))
       /\ LET row == get_next_open_row(heap[b], move)
          IN  /\ heap' = [heap EXCEPT ![b] = drop_piece(@, row, move, next_player)]
              /\ IF DropRaises(row, move)
                 THEN pc' = "error" /\ next_player' = next_player
                 ELSE /\ pc' = "rollout"
                      /\ next_player' = IF next_player = AI_PIECE THEN PLAYER_PIECE
                                        ELSE AI_PIECE
  /\ UNCHANGED <<iterations, nodes, it, node, b, winner, result, fnVars, first, gameVars, marmsVars>>

\* backpropagate(node, winner), and on to the next iteration
Backprop ==
  /\ pc = "backprop"
  /\ nodes' = backpropagate(nodes, node, winner)
  /\ it' = it + 1
  /\ node' = IF it + 1 < iterations THEN root ELSE node
  /\ winner' = NonePiece
  /\ pc' = LoopHead(it + 1)
  /\ UNCHANGED <<heap, iterations, b, next_player, result, fnVars, replayVars, gameVars, marmsVars>>

\* the same return with the empty choice swallowed: (None, {})
ChooseFallbackSilent ==
  /\ pc = "choose"
  /\ Len(nodes[root].children) = 0
  /\ pc' = "done"
  /\ LET valid_locations == get_valid_locations(heap[root_board])
     IN  IF Len(valid_locations) = 0
         THEN result' = [col |-> NoneMove, stats |-> <<>>] /\ rng' = rng
         ELSE \E col \in random_choice(rng, valid_locations) :
                /\ result' = [col |-> col, stats |-> <<>>]
                /\ rng' = Drawn(rng, IndexOf(valid_locations, col))
  /\ UNCHANGED <<heap, iterations, nodes, it, node, b, next_player, winner, fnVars, first, gameVars, marmsVars>>

\* return random.choice(get_valid_locations(root_board)), {}
ChooseFallback ==
  /\ pc = "choose"
  /\ Len(nodes[root].children) = 0
  /\ LET valid_locations == get_valid_locations(heap[root_board])
     IN  IF Len(valid_locations) = 0
         THEN pc' = "error" /\ result' = result /\ rng' = rng
         ELSE /\ pc' = "done"
              /\ \E col \in random_choice(rng, valid_locations) :
                   /\ result' = [col |-> col, stats |-> <<>>]
                   /\ rng' = Drawn(rng, IndexOf(valid_locations, col))
  /\ UNCHANGED <<heap, iterations, nodes, it, node, b, next_player, winner, fnVars, first, gameVars, marmsVars>>

\* the same dict with the visit ratio upside down
StatsInverted(ns) ==
  LET kids == ns[root].children
      max_visits == Max({ns[kids[i].node].visits : i \in 1 .. Len(kids)})
  IN  [i \in 1 .. Len(kids) |->
        LET child == ns[kids[i].node]
        IN  [col |-> kids[i].move,
             visits |-> child.visits,
             win_rate |-> IF child.visits > 0 THEN Quot(child.wins, child.visits) ELSE Zero,
             visits_ratio |-> IF child.visits > 0 THEN Quot(max_visits, child.visits) ELSE Zero]]

\* the stats dict, one entry per root child in insertion order
Stats(ns) ==
  LET kids == ns[root].children
      max_visits == Max({ns[kids[i].node].visits : i \in 1 .. Len(kids)})
  IN  [i \in 1 .. Len(kids) |->
        LET child == ns[kids[i].node]
        IN  [col |-> kids[i].move,
             visits |-> child.visits,
             win_rate |-> IF child.visits > 0 THEN Quot(child.wins, child.visits) ELSE Zero,
             visits_ratio |-> IF max_visits > 0 THEN Quot(child.visits, max_visits) ELSE Zero]]

ChooseBest ==
  /\ pc = "choose"
  /\ Len(nodes[root].children) # 0
  /\ result' = [col |-> nodes[best_child_by_visits(nodes, root)].move, stats |-> Stats(nodes)]
  /\ pc' = "done"
  /\ UNCHANGED <<heap, iterations, nodes, it, node, b, next_player, winner, fnVars, replayVars, gameVars, marmsVars>>

Next ==
  \/ Call
  \/ SelectDescend
  \/ SelectStop
  \/ Expand
  \/ SkipExpansion
  \/ StartPlayout
  \/ RolloutReturn
  \/ RolloutDrop
  \/ Backprop
  \/ ChooseFallback
  \/ ChooseBest

Spec == Init /\ [][Next]_vars

\* ------------------------------------------- board functions called alone
\* Boards for winning_move and get_valid_locations: a run of 3 .. MaxRun
\* cells of one piece, in any direction from any cell it fits at, laid on
\* the empty board or on the full pattern; and the root boards.
RunFits(r, c, d, len) ==
  \A k \in 0 .. (len - 1) :
    (r + k * d[1]) \in Range(ROW_COUNT) /\ (c + k * d[2]) \in Range(COLUMN_COUNT)

RunBoard(kind, piece, r, c, d, len) ==
  [y \in Range(ROW_COUNT) |-> [x \in Range(COLUMN_COUNT) |->
     IF \E k \in 0 .. (len - 1) : y = r + k * d[1] /\ x = c + k * d[2] THEN piece
     ELSE IF kind = "pattern" THEN Pattern(y, x)
     ELSE EMPTY]]

RunBoards ==
  {RunBoard(q[1], q[2], q[3], q[4], q[5], q[6]) :
     q \in {t \in {"empty", "pattern"} \X {PLAYER_PIECE, AI_PIECE}
                  \X Range(ROW_COUNT) \X Range(COLUMN_COUNT)
                  \X {<<0, 1>>, <<1, 0>>, <<1, 1>>, <<0 - 1, 1>>} \X (3 .. MaxRun) :
             RunFits(t[3], t[4], t[5], t[6])}}

TestBoards == RunBoards \cup RootBoards

InitBoard ==
  /\ fboard \in TestBoards
  /\ fret = NoReturn
  /\ rng = FreeSource
  /\ first = NoResult
  /\ turn = AI
  /\ game_over = FALSE
  /\ accounts = <<>>
  /\ sim = NoSim
  /\ heap = <<create_board>>
  /\ iterations = 0
  /\ nodes = <<>>
  /\ it = 0
  /\ node = NoneNode
  /\ pc = "idle"
  /\ b = 0
  /\ next_player = NonePiece
  /\ winner = NonePiece
  /\ result = NoResult

CallWinningMove ==
  /\ pc = "idle"
  /\ \E piece \in {PLAYER_PIECE, AI_PIECE} :
       fret' = [fn |-> "winning_move", piece |-> piece,
                value |-> winning_move(fboard, piece)]
  /\ UNCHANGED <<fboard, searchVars, replayVars, gameVars, marmsVars>>

CallGetValidLocations ==
  /\ pc = "idle"
  /\ fret' = [fn |-> "get_valid_locations", piece |-> NonePiece,
              value |-> get_valid_locations(fboard)]
  /\ UNCHANGED <<fboard, searchVars, replayVars, gameVars, marmsVars>>

NextBoard ==
  \/ CallWinningMove
  \/ CallGetValidLocations

SpecBoard == InitBoard /\ [][NextBoard]_vars

\* ------------------------------------- searches one move from an AI win
\* Root boards with AI_PIECE on row 0 of columns 0 .. 2, column 3 empty and
\* the other cells as in Pattern, the columns in open lacking their top
\* cell: 36 pieces less one for every column in open.
ShortOf(open) ==
  [r \in Range(ROW_COUNT) |-> [c \in Range(COLUMN_COUNT) |->
     IF c = 3 THEN EMPTY
     ELSE IF c \in open /\ r = ROW_COUNT - 1 THEN EMPTY
     ELSE IF r = 0 /\ c < 3 THEN AI_PIECE
     ELSE Pattern(r, c)]]

ShortBoards == {ShortOf(open) : open \in SUBSET {4, 5, 6}}

InitShort ==
  /\ heap \in {<<rb>> : rb \in ShortBoards}
  /\ iterations \in 0 .. MaxIter
  /\ nodes = <<>>
  /\ it = 0
  /\ node = NoneNode
  /\ pc = "call"
  /\ b = 0
  /\ next_player = NonePiece
  /\ winner = NonePiece
  /\ result = NoResult
  /\ fboard = create_board
  /\ fret = NoReturn
  /\ rng = FreeSource
  /\ first = NoResult
  /\ turn = AI
  /\ game_over = FALSE
  /\ accounts = <<>>
  /\ sim = NoSim

SpecShort == InitShort /\ [][Next]_vars

\* ------------------------------------------- two calls on the same board
\* MCTS_Search called, and called again on the same board with the same
\* iteration count after the random source was set back to where it was
\* before the first call.
\* the root boards with at most as many empty cells as columns that may
\* have some
ReplayBoards ==
  {RootOf(kind, gap) : kind \in {"open", "won"},
                       gap \in {g \in Gaps : SumOver(g, OpenColumns) <= Cardinality(OpenColumns)}}

InitReplay ==
  /\ heap \in {<<rb>> : rb \in ReplayBoards}
  /\ iterations \in 0 .. MaxReplayIter
  /\ nodes = <<>>
  /\ it = 0
  /\ node = NoneNode
  /\ pc = "call"
  /\ b = 0
  /\ next_player = NonePiece
  /\ winner = NonePiece
  /\ result = NoResult
  /\ fboard = create_board
  /\ fret = NoReturn
  /\ rng = [mode |-> "record", tape |-> <<>>, pos |-> 1]
  /\ first = NoResult
  /\ turn = AI
  /\ game_over = FALSE
  /\ accounts = <<>>
  /\ sim = NoSim

\* The first call has returned: its locals (the tree, the boards it copied)
\* are gone; the caller keeps the result, sets the random source back and
\* calls again.
CallAgain ==
  /\ pc = "done"
  /\ rng.mode = "record"
  /\ first' = result
  /\ rng' = [rng EXCEPT !.mode = "replay", !.pos = 1]
  /\ heap' = <<heap[root_board]>>
  /\ nodes' = <<>>
  /\ it' = 0
  /\ node' = NoneNode
  /\ pc' = "call"
  /\ b' = 0
  /\ next_player' = NonePiece
  /\ winner' = NonePiece
  /\ result' = NoResult
  /\ UNCHANGED <<iterations, fnVars, gameVars, marmsVars>>

NextReplay ==
  \/ Next
  \/ CallAgain

SpecReplay == InitReplay /\ [][NextReplay]_vars

\* -------------------------------------------------------- the game loop
\* A full board without four in a row that holds 21 pieces of each side.
GamePattern(r, c) ==
  IF r = ROW_COUNT - 1 /\ c = COLUMN_COUNT - 3 THEN AI_PIECE ELSE Pattern(r, c)

GameBoardOf(gap) ==
  [r \in Range(ROW_COUNT) |-> [c \in Range(COLUMN_COUNT) |->
     IF c \in OpenColumns /\ r >= ROW_COUNT - gap[c] THEN EMPTY ELSE GamePattern(r, c)]]

CountOf(board, piece) ==
  Cardinality({rc \in Range(ROW_COUNT) \X Range(COLUMN_COUNT) : board[rc[1]][rc[2]] = piece})

PieceOf(side) == IF side = AI THEN AI_PIECE ELSE PLAYER_PIECE

\* turn += 1; turn = turn % 2
NextTurn(side) == (side + 1) % 2

\* the board can stand in a game that the side `starter` opened: the sides
\* dropped in turn, so the starter holds the odd piece if there is one
OpenedBy(board, starter) ==
  /\ CountOf(board, PieceOf(starter)) = (count_pieces(board) + 1) \div 2
  /\ CountOf(board, PieceOf(NextTurn(starter))) = count_pieces(board) \div 2

\* The games are taken up late: a board of GamePattern lacking one to
\* MaxGameEmpty cells at the top of the open columns, with the side that
\* random.randint picked to open, for every pick the board can stand in.
GameStarts ==
  {q \in {GameBoardOf(gap) : gap \in {g \in Gaps : SumOver(g, OpenColumns) \in 1 .. MaxGameEmpty}}
           \X {PLAYER, AI} : OpenedBy(q[1], q[2])}

InitGame ==
  /\ \E q \in GameStarts :
       /\ heap = <<q[1]>>
       /\ turn = (IF count_pieces(q[1]) % 2 = 0 THEN q[2] ELSE NextTurn(q[2]))
  /\ game_over = FALSE
  /\ accounts = <<>>
  /\ sim = NoSim
  /\ pc = "loop"
  /\ iterations = 0
  /\ nodes = <<>>
  /\ it = 0
  /\ node = NoneNode
  /\ b = 0
  /\ next_player = NonePiece
  /\ winner = NonePiece
  /\ result = NoResult
  /\ fboard = create_board
  /\ fret = NoReturn
  /\ rng = FreeSource
  /\ first = NoResult

\* MOUSEBUTTONDOWN while turn == PLAYER, at a position over column col
PlayerClick ==
  /\ pc = "loop"
  /\ ~game_over
  /\ turn = PLAYER
  /\ \E col \in Range(COLUMN_COUNT) :
       IF is_valid_location(heap[root_board], col)
       THEN LET row == get_next_open_row(heap[root_board], col)
                dropped == drop_piece(heap[root_board], row, col, PLAYER_PIECE)
            IN  /\ heap' = [heap EXCEPT ![root_board] = dropped]
                /\ IF DropRaises(row, col)
                   THEN pc' = "error" /\ UNCHANGED gameVars
                   ELSE /\ pc' = pc
                        /\ game_over' = winning_move(dropped, PLAYER_PIECE)
                        /\ turn' = NextTurn(turn)
       ELSE UNCHANGED <<heap, pc, gameVars>>
  /\ UNCHANGED <<iterations, nodes, it, node, b, next_player, winner, result, fnVars, replayVars, marmsVars>>

\* if turn == AI and not game_over: ... MCTS_Search(board, iterations=iterations)
AITurn ==
  /\ pc = "loop"
  /\ ~game_over
  /\ turn = AI
  /\ iterations' = MaxGameIter
  /\ pc' = "call"
  /\ UNCHANGED <<heap, nodes, it, node, b, next_player, winner, result, fnVars, replayVars, gameVars, marmsVars>>

\* MCTS_Search has returned (its locals are gone); the loop drops AI_PIECE
\* in the returned column
AIDrop ==
  /\ pc = "done"
  /\ LET col == result.col
         board == heap[root_board]
     IN  IF is_valid_location(board, col)
         THEN LET row == get_next_open_row(board, col)
                  dropped == drop_piece(board, row, col, AI_PIECE)
              IN  /\ heap' = <<dropped>>
                  /\ IF DropRaises(row, col)
                     THEN pc' = "error" /\ UNCHANGED gameVars
                     ELSE /\ pc' = "loop"
                          /\ game_over' = winning_move(dropped, AI_PIECE)
                          /\ turn' = NextTurn(turn)
         ELSE /\ heap' = <<board>>
              /\ pc' = "loop"
              /\ UNCHANGED gameVars
  /\ nodes' = <<>>
  /\ it' = 0
  /\ node' = NoneNode
  /\ UNCHANGED <<iterations, b, next_player, winner, result, fnVars, replayVars, marmsVars>>

\* pygame.QUIT: sys.exit()
GameQuit ==
  /\ pc = "loop"
  /\ ~game_over
  /\ pc' = "exit"
  /\ UNCHANGED <<heap, iterations, nodes, it, node, b, next_player, winner, result, fnVars, replayVars, gameVars, marmsVars>>

\* if game_over: pygame.time.wait(3000), and the loop ends
GameEnd ==
  /\ pc = "loop"
  /\ game_over
  /\ pc' = "over"
  /\ UNCHANGED <<heap, iterations, nodes, it, node, b, next_player, winner, result, fnVars, replayVars, gameVars, marmsVars>>

NextGame ==
  \/ Next
  \/ PlayerClick
  \/ AITurn
  \/ AIDrop
  \/ GameQuit
  \/ GameEnd

SpecGame == InitGame /\ [][NextGame]_vars

\* ------------------------------------------------------------------ MARMS
\* Two front-ends of one simulation: "pygame" (marms_visualizer_4_final.py)
\* and "streamlit" (marms_sl.py).  An account's history is kept by its
\* length; its elements are only drawn.  The reward multiplier is counted in
\* quarters (the input's step is 0.25) and the risk percentage in hundredths
\* of a percent, so that all amounts are whole dollars.

\* init_accounts
init_accounts ==
  [k \in 1 .. NUM_ACCOUNTS |->
     [id |-> k, equity |-> START_EQ, history_len |-> 1, wins |-> 0, losses |-> 0,
      total |-> 0, status |-> "running"]]

\* the clamps at the end of simulate_trade, the same in both files
Settled(acc, equity) ==
  LET floored == IF equity < 0 THEN 0 ELSE equity
      grown == [acc EXCEPT !.history_len = @ + 1]
  IN  IF floored >= TARGET_EQ
      THEN [grown EXCEPT !.status = "finished", !.equity = TARGET_EQ]
      ELSE IF floored <= DEATH_EQ
      THEN [grown EXCEPT !.status = "failed", !.equity = DEATH_EQ]
      ELSE [grown EXCEPT !.equity = floored]

\* the trade without the stop at MAX_TRADES
simulate_trade_unstopped(acc, outcome) ==
  IF acc.status # "running" THEN acc
  ELSE IF outcome = "win"
  THEN Settled([acc EXCEPT !.total = @ + 1, !.wins = @ + 1],
               acc.equity + RISK_AMOUNT * WIN_MULT)
  ELSE Settled([acc EXCEPT !.total = @ + 1, !.losses = @ + 1],
               acc.equity - RISK_AMOUNT * LOSS_MULT)

\* marms_visualizer_4_final.py: simulate_trade(acc), the draw being outcome
simulate_trade(acc, outcome) ==
  IF acc.status # "running" \/ acc.total >= MAX_TRADES THEN acc
  ELSE IF outcome = "win"
  THEN Settled([acc EXCEPT !.total = @ + 1, !.wins = @ + 1],
               acc.equity + RISK_AMOUNT * WIN_MULT)
  ELSE Settled([acc EXCEPT !.total = @ + 1, !.losses = @ + 1],
               acc.equity - RISK_AMOUNT * LOSS_MULT)

\* marms_sl.py: risk_amount = START_EQ * risk_percent
sl_risk_amount(risk_percent) == (START_EQ * risk_percent) \div 10000

\* marms_sl.py: simulate_trade(acc), the draw being outcome
sl_simulate_trade(acc, outcome, risk_percent, win_mult) ==
  IF acc.status # "running" \/ acc.total >= MAX_TRADES
  THEN IF acc.total >= MAX_TRADES /\ acc.status = "running"
       THEN [acc EXCEPT !.status = "max_trades"]
       ELSE acc
  ELSE IF outcome = "win"
  THEN Settled([acc EXCEPT !.total = @ + 1, !.wins = @ + 1],
               acc.equity + (sl_risk_amount(risk_percent) * win_mult) \div 4)
  ELSE Settled([acc EXCEPT !.total = @ + 1, !.losses = @ + 1],
               acc.equity - sl_risk_amount(risk_percent) * LOSS_MULT_DEFAULT)

\* all(a["status"] != "running" for a in accounts)
AllStopped(accs) == \A k \in 1 .. Len(accs) : accs[k].status # "running"

\* the values of the two inputs of marms_sl.py taken up here: 1.0, 1.5 and
\* 5.0 for the reward multiplier, 1.00% and 2.00% for the risk
WinMults == {4, 6, 20}
RiskPercents == {100, 200}

InitMarms ==
  /\ accounts = init_accounts
  /\ \/ sim = [frontend |-> "pygame", win_mult |-> 4 * WIN_MULT, risk_percent |-> 100,
               paused |-> FALSE, is_running |-> FALSE, all_finished |-> FALSE,
               pc |-> "events", acc |-> 0]
     \/ sim = [frontend |-> "streamlit", win_mult |-> 6, risk_percent |-> 100,
               paused |-> FALSE, is_running |-> FALSE, all_finished |-> FALSE,
               pc |-> "events", acc |-> 0]
  /\ heap = <<create_board>>
  /\ iterations = 0
  /\ nodes = <<>>
  /\ it = 0
  /\ node = NoneNode
  /\ pc = "idle"
  /\ b = 0
  /\ next_player = NonePiece
  /\ winner = NonePiece
  /\ result = NoResult
  /\ fboard = create_board
  /\ fret = NoReturn
  /\ rng = FreeSource
  /\ first = NoResult
  /\ turn = AI
  /\ game_over = FALSE

notMarms == <<searchVars, fnVars, replayVars, gameVars>>

\* ---- marms_visualizer_4_final.py: the main loop
AtEvents(frontend) == sim.frontend = frontend /\ sim.pc = "events"

\* K_SPACE: paused = not paused
PgKeySpace ==
  /\ AtEvents("pygame")
  /\ sim' = [sim EXCEPT !.paused = ~@]
  /\ UNCHANGED <<accounts, notMarms>>

\* K_r: reset_sim()
PgKeyR ==
  /\ AtEvents("pygame")
  /\ accounts' = init_accounts
  /\ sim' = [sim EXCEPT !.all_finished = FALSE]
  /\ UNCHANGED notMarms

\* pygame.QUIT or K_ESCAPE: sys.exit()
PgQuit ==
  /\ AtEvents("pygame")
  /\ sim' = [sim EXCEPT !.pc = "exit"]
  /\ UNCHANGED <<accounts, notMarms>>

\* if not paused and not all_finished: for acc in accounts: ...
PgFrame ==
  /\ AtEvents("pygame")
  /\ ~sim.paused /\ ~sim.all_finished
  /\ sim' = [sim EXCEPT !.pc = "trade", !.acc = 1]
  /\ UNCHANGED <<accounts, notMarms>>

\* the for loop over the accounts goes on, or ends
AfterTrade == IF sim.acc = Len(accounts) THEN [sim EXCEPT !.pc = "check", !.acc = 0]
              ELSE [sim EXCEPT !.acc = @ + 1]

\* simulate_trade(acc) for the account the for loop is at
PgTrade ==
  /\ sim.frontend = "pygame" /\ sim.pc = "trade"
  /\ \E outcome \in {"win", "loss"} :
       accounts' = [accounts EXCEPT ![sim.acc] = simulate_trade(@, outcome)]
  /\ sim' = AfterTrade
  /\ UNCHANGED notMarms

\* check_global_stop()
PgCheckStop ==
  /\ sim.frontend = "pygame" /\ sim.pc = "check"
  /\ sim' = [sim EXCEPT !.all_finished = AllStopped(accounts), !.pc = "events"]
  /\ UNCHANGED <<accounts, notMarms>>

\* ---- marms_sl.py: the script and its callbacks
\* reset_sim(): the state it leaves
sl_reset(s) == [s EXCEPT !.is_running = FALSE, !.all_finished = FALSE]

\* the Start button
StStart ==
  /\ AtEvents("streamlit")
  /\ ~sim.is_running /\ ~sim.all_finished
  /\ sim' = [sim EXCEPT !.is_running = TRUE]
  /\ UNCHANGED <<accounts, notMarms>>

\* the Pause button
StPause ==
  /\ AtEvents("streamlit")
  /\ sim.is_running
  /\ sim' = [sim EXCEPT !.is_running = FALSE]
  /\ UNCHANGED <<accounts, notMarms>>

\* the Reset button
StReset ==
  /\ AtEvents("streamlit")
  /\ accounts' = init_accounts
  /\ sim' = sl_reset(sim)
  /\ UNCHANGED notMarms

\* the reward multiplier input, on_change=reset_sim
StWinMult ==
  /\ AtEvents("streamlit")
  /\ \E w \in WinMults \ {sim.win_mult} :
       sim' = sl_reset([sim EXCEPT !.win_mult = w])
  /\ accounts' = init_accounts
  /\ UNCHANGED notMarms

\* the risk percentage selectbox: its on_change sets risk_percent to the
\* option selected, so the comparison that follows it in the script finds the
\* two equal and does not call reset_sim
StRisk ==
  /\ AtEvents("streamlit")
  /\ \E r \in RiskPercents \ {sim.risk_percent} :
       sim' = [sim EXCEPT !.risk_percent = r]
  /\ UNCHANGED <<accounts, notMarms>>

\* run_simulation_step: one turn of `for _ in range(trades_per_step)`
StStep ==
  /\ AtEvents("streamlit")
  /\ sim.is_running /\ ~sim.all_finished
  /\ sim' = [sim EXCEPT !.pc = "trade", !.acc = 1]
  /\ UNCHANGED <<accounts, notMarms>>

StTrade ==
  /\ sim.frontend = "streamlit" /\ sim.pc = "trade"
  /\ \E outcome \in {"win", "loss"} :
       accounts' = [accounts EXCEPT
                      ![sim.acc] = sl_simulate_trade(@, outcome, sim.risk_percent, sim.win_mult)]
  /\ sim' = AfterTrade
  /\ UNCHANGED notMarms

\* if all(...): all_finished = True; is_running = False
StCheckStop ==
  /\ sim.frontend = "streamlit" /\ sim.pc = "check"
  /\ sim' = IF AllStopped(accounts)
            THEN [sim EXCEPT !.all_finished = TRUE, !.is_running = FALSE, !.pc = "events"]
            ELSE [sim EXCEPT !.pc = "events"]
  /\ UNCHANGED <<accounts, notMarms>>

\* the simulation going on by itself
NextMarmsRun ==
  \/ PgFrame
  \/ PgTrade
  \/ PgCheckStop
  \/ StStep
  \/ StTrade
  \/ StCheckStop

NextMarms ==
  \/ NextMarmsRun
  \/ PgKeySpace
  \/ PgKeyR
  \/ PgQuit
  \/ StStart
  \/ StPause
  \/ StReset
  \/ StWinMult
  \/ StRisk

SpecMarms == InitMarms /\ [][NextMarms]_vars

\* ---- a simulation left running: no key, no button, no input
\* the pygame program as it starts; the streamlit script after Start, under
\* any of the parameters
InitMarmsRun ==
  /\ accounts = init_accounts
  /\ \/ sim = [frontend |-> "pygame", win_mult |-> 4 * WIN_MULT, risk_percent |-> 100,
               paused |-> FALSE, is_running |-> FALSE, all_finished |-> FALSE,
               pc |-> "events", acc |-> 0]
     \/ \E w \in WinMults, r \in RiskPercents :
          sim = [frontend |-> "streamlit", win_mult |-> w, risk_percent |-> r,
                 paused |-> FALSE, is_running |-> TRUE, all_finished |-> FALSE,
                 pc |-> "events", acc |-> 0]
  /\ heap = <<create_board>>
  /\ iterations = 0
  /\ nodes = <<>>
  /\ it = 0
  /\ node = NoneNode
  /\ pc = "idle"
  /\ b = 0
  /\ next_player = NonePiece
  /\ winner = NonePiece
  /\ result = NoResult
  /\ fboard = create_board
  /\ fret = NoReturn
  /\ rng = FreeSource
  /\ first = NoResult
  /\ turn = AI
  /\ game_over = FALSE

\* `while True:` and st.rerun() take the next frame, the next trade and the
\* next check whenever there is one to take
SpecMarmsRun == InitMarmsRun /\ [][NextMarmsRun]_vars /\ WF_vars(NextMarmsRun)

\* ------------------------------------------------- stated independently
\* the rules of the game, written without the program's loops

Pieces == {PLAYER_PIECE, AI_PIECE}

InBoard(r, c) == r \in Range(ROW_COUNT) /\ c \in Range(COLUMN_COUNT)

\* right, up, up-right, down-right
Directions == {<<0, 1>>, <<1, 0>>, <<1, 1>>, <<0 - 1, 1>>}

\* four consecutive cells of piece from (r, c) in direction d
FourAt(board, piece, r, c, d) ==
  \A k \in 0 .. 3 :
    /\ InBoard(r + k * d[1], c + k * d[2])
    /\ board[r + k * d[1]][c + k * d[2]] = piece

\* every line of four cells of the grid, as the cells it passes
FourLines ==
  {[k \in 0 .. 3 |-> <<q[1] + k * q[3][1], q[2] + k * q[3][2]>>] :
     q \in {t \in Range(ROW_COUNT) \X Range(COLUMN_COUNT) \X Directions :
             InBoard(t[1] + 3 * t[3][1], t[2] + 3 * t[3][2])}}

HasFour(board, piece) ==
  \E line \in FourLines : \A k \in 0 .. 3 : board[line[k][1]][line[k][2]] = piece

\* the columns whose top cell is empty
LegalColumns(board) == {c \in Range(COLUMN_COUNT) : board[ROW_COUNT - 1][c] = EMPTY}

\* no empty cell below a filled one
BottomPacked(board) ==
  \A c \in Range(COLUMN_COUNT) : \A r \in 1 .. (ROW_COUNT - 1) :
    board[r][c] # EMPTY => board[r - 1][c] # EMPTY

\* after is before with one piece more, on the lowest empty cell of a column
Landed(before, after) ==
  \E c \in Range(COLUMN_COUNT), r \in Range(ROW_COUNT), piece \in Pieces :
    /\ before[r][c] = EMPTY
    /\ \A q \in 0 .. (r - 1) : before[q][c] # EMPTY
    /\ after = [before EXCEPT ![r][c] = piece]

Returned == pc = "done"
Failed == pc = "error"
RootKids == nodes[root].children

\* ---------------------------------------------------------------- claims

\* C1: visit conservation.  Once MCTS_Search has run its N iterations
\* (whether it then returns or fails), the root's visits counter is N.
C1_VisitConservation ==
  pc \in {"choose", "done", "error"} => nodes[root].visits = iterations

\* a search of several iterations over a root that was expanded, finished
C1_Witness ==
  /\ Returned
  /\ iterations = MaxIter
  /\ Len(RootKids) > 1
  /\ nodes[root].visits = MaxIter

\* C2: on a bottom-packed root board with a legal column the search does
\* not fail, and the column it returns is a legal column of the caller's
\* board.
C2_ChosenColumnLegal ==
  (BottomPacked(heap[root_board]) /\ LegalColumns(heap[root_board]) # {}) =>
    /\ ~Failed
    /\ Returned => result.col \in LegalColumns(heap[root_board])

\* a search returns a column of a root that has a full column beside it
C2_Witness ==
  /\ Returned
  /\ iterations > 0
  /\ Len(RootKids) > 0
  /\ LegalColumns(heap[root_board]) # Range(COLUMN_COUNT)
  /\ result.col \in LegalColumns(heap[root_board])

\* C3: no step of MCTS_Search changes a cell of the caller's board, also
\* in a call that fails.
C3_CallerBoardUnchanged == [][heap'[root_board] = heap[root_board]]_vars

\* the tree was grown and rolled out, and every tree board below the root
\* differs from the caller's
C3_Witness ==
  /\ Returned
  /\ Len(nodes) > 2
  /\ \A i \in 2 .. Len(nodes) : heap[nodes[i].board] # heap[root_board]

\* a quotient in [0, 1]
InUnit(q) == q.den > 0 /\ 0 <= q.num /\ q.num <= q.den

\* C4: the statistics have exactly the columns the root expanded as keys,
\* and every entry has visits >= 1, a win rate in [0, 1] and a visit ratio
\* in [0, 1]: for every root child 0 <= wins <= visits <= max child visits.
C4_StatisticsShape ==
  Returned =>
    /\ Len(result.stats) = Len(RootKids)
    /\ {result.stats[i].col : i \in 1 .. Len(result.stats)}
         = {RootKids[i].move : i \in 1 .. Len(RootKids)}
    /\ Cardinality({result.stats[i].col : i \in 1 .. Len(result.stats)})
         = Len(result.stats)
    /\ \A i \in 1 .. Len(result.stats) :
         /\ result.stats[i].visits >= 1
         /\ InUnit(result.stats[i].win_rate)
         /\ InUnit(result.stats[i].visits_ratio)
    /\ \A i \in 1 .. Len(RootKids) :
         LET child == nodes[RootKids[i].node]
         IN  /\ 0 <= child.wins
             /\ child.wins <= child.visits
             /\ \E j \in 1 .. Len(RootKids) :
                  /\ child.visits <= nodes[RootKids[j].node].visits
                  /\ \A k \in 1 .. Len(RootKids) :
                       nodes[RootKids[k].node].visits <= nodes[RootKids[j].node].visits

\* statistics with several entries, one of them below the maximum and one
\* with a win rate strictly between 0 and 1
C4_Witness ==
  /\ Returned
  /\ Len(result.stats) > 1
  /\ \E i \in 1 .. Len(result.stats) :
       result.stats[i].visits_ratio.num < result.stats[i].visits_ratio.den
  /\ \E i \in 1 .. Len(result.stats) :
       /\ 0 < result.stats[i].win_rate.num
       /\ result.stats[i].win_rate.num < result.stats[i].win_rate.den

\* C5: when the root has a child, the returned column is the move of the
\* root child of greatest visits, the first inserted among those tied, and
\* that column's visit ratio is exactly 1.
C5_MostVisitedChild ==
  (Returned /\ Len(RootKids) > 0) =>
    \E i \in 1 .. Len(RootKids) :
      /\ result.col = RootKids[i].move
      /\ \A j \in 1 .. Len(RootKids) :
           nodes[RootKids[j].node].visits <= nodes[RootKids[i].node].visits
      /\ \A j \in 1 .. (i - 1) :
           nodes[RootKids[j].node].visits < nodes[RootKids[i].node].visits
      /\ \E k \in 1 .. Len(result.stats) :
           /\ result.stats[k].col = result.col
           /\ result.stats[k].visits_ratio.num = result.stats[k].visits_ratio.den

\* two root children tie for the maximum, and the one returned has the
\* lower win count
C5_Witness ==
  /\ Returned
  /\ Len(RootKids) > 1
  /\ \E i, j \in 1 .. Len(RootKids) :
       /\ i < j
       /\ result.col = RootKids[i].move
       /\ nodes[RootKids[i].node].visits = nodes[RootKids[j].node].visits
       /\ nodes[RootKids[i].node].wins < nodes[RootKids[j].node].wins

\* the root board is won but has a legal column, or no iteration is asked
Degenerate ==
  \/ iterations = 0
  \/ /\ LegalColumns(heap[root_board]) # {}
     /\ \E piece \in Pieces : HasFour(heap[root_board], piece)

\* C6: degenerate fallback.  When the root board already holds four in a
\* row but has a legal column, or when iterations = 0, the root never gains
\* a child; if the board has a legal column the call does not fail, and
\* what it returns is empty statistics and a legal column.
C6_DegenerateFallback ==
  Degenerate =>
    /\ nodes # <<>> => Len(nodes) = 1 /\ Len(RootKids) = 0
    /\ LegalColumns(heap[root_board]) # {} => ~Failed
    /\ Returned => /\ result.stats = <<>>
                   /\ result.col \in LegalColumns(heap[root_board])

\* a search of several iterations on a won board with a legal column returns
C6_Witness ==
  /\ Returned
  /\ iterations > 1
  /\ HasFour(heap[root_board], AI_PIECE)
  /\ LegalColumns(heap[root_board]) # {}
  /\ result.stats = <<>>

\* C7: on a board with no legal column the call never returns a (column,
\* statistics) pair, and when it has ended it has ended in an error.
C7_FullBoardFails ==
  LegalColumns(heap[root_board]) = {} =>
    /\ ~Returned
    /\ result = NoResult
    /\ Failed \/ ENABLED Next

\* the call on a full board has failed, after running its iterations
C7_Witness ==
  /\ LegalColumns(heap[root_board]) = {}
  /\ Failed
  /\ iterations > 0
  /\ nodes[root].visits = iterations

\* every board that exists is bottom-packed
AllPacked == \A i \in 1 .. Len(heap) : BottomPacked(heap[i])

\* every board after a step is a board of before, or one with a piece landed
DropsLand ==
  \A i \in 1 .. Len(heap') :
    \E j \in 1 .. Len(heap) : heap'[i] = heap[j] \/ Landed(heap[j], heap'[i])

\* C8: gravity.  Every board that exists during a search of a bottom-packed
\* root board is bottom-packed, and every board a step makes or changes is a
\* board of before with one piece landed on the lowest empty cell of a
\* column that was not full.
C8_Gravity == [](BottomPacked(heap[root_board]) => AllPacked) /\ [][DropsLand]_vars

\* a rollout has dropped two pieces into one column
C8_Witness ==
  /\ pc = "rollout"
  /\ \E c \in Range(COLUMN_COUNT) : \E r \in 1 .. (ROW_COUNT - 1) :
       /\ heap[nodes[node].board][r - 1][c] = EMPTY
       /\ heap[b][r][c] # EMPTY

\* C9: win detection.  winning_move(board, piece) is true exactly when the
\* board holds four consecutive cells of the piece along a row, a column,
\* an ascending or a descending diagonal; a longest run of three is false.
C9_WinDetection ==
  fret.fn = "winning_move" => (fret.value <=> HasFour(fboard, fret.piece))

\* winning_move has answered true on a board whose only four in a row is a
\* descending diagonal reaching the top row
C9_Witness ==
  /\ fret.fn = "winning_move"
  /\ fret.value = TRUE
  /\ \E c \in Range(COLUMN_COUNT) :
       FourAt(fboard, fret.piece, ROW_COUNT - 1, c, <<0 - 1, 1>>)
  /\ \A r \in Range(ROW_COUNT), c \in Range(COLUMN_COUNT), d \in Directions :
       FourAt(fboard, fret.piece, r, c, d) => d = <<0 - 1, 1>>

\* C10: legality.  get_valid_locations returns, in strictly ascending
\* order, exactly the columns 0 .. 6 whose top cell is empty; each of them
\* satisfies is_valid_location.
C10_LegalColumns ==
  fret.fn = "get_valid_locations" =>
    /\ \A i \in 1 .. (Len(fret.value) - 1) : fret.value[i] < fret.value[i + 1]
    /\ Elems(fret.value) = LegalColumns(fboard)
    /\ \A i \in 1 .. Len(fret.value) :
         /\ fret.value[i] \in 0 .. 6
         /\ is_valid_location(fboard, fret.value[i])

\* get_valid_locations has returned the first and the last column, and not
\* every column
C10_Witness ==
  /\ fret.fn = "get_valid_locations"
  /\ 0 \in Elems(fret.value)
  /\ (COLUMN_COUNT - 1) \in Elems(fret.value)
  /\ Len(fret.value) < COLUMN_COUNT

\* a board on which the game is over: four in a row, or no legal column
GameOver(board) ==
  \/ LegalColumns(board) = {}
  \/ \E piece \in Pieces : HasFour(board, piece)

\* the smaller of two numbers
Least(x, y) == IF x <= y THEN x ELSE y

\* the main loop is between two iterations, or past the last one
BetweenIterations ==
  /\ nodes # <<>>
  /\ pc \in {"choose", "done"} \/ (pc = "select" /\ node = root)

\* C11: on a root board that is not terminal and has L legal columns, the
\* root has exactly min(k, L) children, of distinct columns, once k
\* iterations are done; a search of one iteration returns statistics of
\* exactly one entry, with visits 1, visit ratio 1 and win rate 0 or 1.
C11_RootChildren ==
  (nodes # <<>> /\ ~GameOver(heap[root_board])) =>
    /\ BetweenIterations =>
         /\ Len(RootKids) = Least(it, Cardinality(LegalColumns(heap[root_board])))
         /\ Cardinality({RootKids[i].move : i \in 1 .. Len(RootKids)}) = Len(RootKids)
    /\ Returned => it = iterations
    /\ (Returned /\ iterations = 1) =>
         /\ Len(result.stats) = 1
         /\ result.stats[1].visits = 1
         /\ result.stats[1].visits_ratio = Quot(1, 1)
         /\ result.stats[1].win_rate \in {Quot(0, 1), Quot(1, 1)}

\* a search with more iterations than legal columns has returned, the root
\* having a child for each of its several legal columns
C11_Witness ==
  /\ Returned
  /\ ~GameOver(heap[root_board])
  /\ Cardinality(LegalColumns(heap[root_board])) > 1
  /\ iterations > Cardinality(LegalColumns(heap[root_board]))
  /\ Len(RootKids) = Cardinality(LegalColumns(heap[root_board]))

\* the nodes from node id up to and including the root
RECURSIVE PathFrom(_, _)
PathFrom(ns, id) ==
  IF id = NoneNode THEN {} ELSE {id} \cup PathFrom(ns, ns[id].parent)

\* the credit of one backpropagation to node i of the path
WinCredit(i) ==
  IF winner # NonePiece /\ nodes[i].player = winner THEN 1 ELSE 0

BackpropCredit ==
  pc = "backprop" =>
    /\ Len(nodes') = Len(nodes)
    /\ root \in PathFrom(nodes, node)
    /\ \A i \in PathFrom(nodes, node) :
         /\ nodes'[i].visits = nodes[i].visits + 1
         /\ nodes'[i].wins = nodes[i].wins + WinCredit(i)
    /\ winner = NonePiece => \A i \in 1 .. Len(nodes) : nodes'[i].wins = nodes[i].wins

\* C13: backpropagation credit.  Every backpropagation adds one visit to
\* each node from the simulated node up to and including the root, and one
\* win to exactly those of them whose player is the rollout's winner; a
\* drawn rollout adds no win to any node, and the root's wins is always 0.
C13_BackpropCredit ==
  /\ [](nodes # <<>> => nodes[root].wins = 0)
  /\ [][BackpropCredit]_vars

\* a node two moves below the root has been credited a win that its parent
\* was not credited
C13_Witness ==
  /\ nodes # <<>>
  /\ \E i \in 1 .. Len(nodes) :
       /\ nodes[i].parent # NoneNode
       /\ nodes[nodes[i].parent].parent # NoneNode
       /\ nodes[i].wins = 1
       /\ nodes[i].visits = 1
       /\ nodes[nodes[i].parent].wins = 0
       /\ nodes[nodes[i].parent].visits = 2

\* the columns under which node n keeps a child
ChildKeys(n) == {n.children[k].move : k \in 1 .. Len(n.children)}

\* C16: tree bookkeeping.  For every node of the tree, untried_moves and
\* the keys of children are disjoint and together are the legal columns of
\* the node's board; every child is stored under its own move, once, and
\* has the node as parent; the node is fully expanded exactly when every
\* legal column of its board has a child.
C16_TreeBookkeeping ==
  \A i \in 1 .. Len(nodes) :
    LET n == nodes[i]
        legal == LegalColumns(heap[n.board])
    IN  /\ Elems(n.untried_moves) \cap ChildKeys(n) = {}
        /\ Elems(n.untried_moves) \cup ChildKeys(n) = legal
        /\ Cardinality(ChildKeys(n)) = Len(n.children)
        /\ \A k \in 1 .. Len(n.children) :
             /\ n.children[k].node \in 1 .. Len(nodes)
             /\ nodes[n.children[k].node].move = n.children[k].move
             /\ nodes[n.children[k].node].parent = i
        /\ is_fully_expanded(n) <=> legal \subseteq ChildKeys(n)

\* a node below the root has children for some of the legal columns of its
\* board and untried moves for the others
C16_Witness ==
  \E i \in 1 .. Len(nodes) :
    /\ nodes[i].parent # NoneNode
    /\ nodes[i].children # <<>>
    /\ nodes[i].untried_moves # <<>>

\* the number of pieces on a board
PieceCount(board) ==
  Cardinality({rc \in Range(ROW_COUNT) \X Range(COLUMN_COUNT) : board[rc[1]][rc[2]] # EMPTY})

\* the lowest empty row of a column that is not full
LowestEmpty(board, c) == Min({r \in Range(ROW_COUNT) : board[r][c] = EMPTY})

\* C17: expansion step.  The board of every node below the root is its
\* parent's board with one more piece, the node's player, in the lowest
\* empty cell of column node.move; the player is AI_PIECE when the parent's
\* board has an even number of pieces and PLAYER_PIECE when odd; the piece
\* count grows by one and the player alternates from parent to child.
C17_ExpansionStep ==
  \A i \in 1 .. Len(nodes) :
    nodes[i].parent # NoneNode =>
      LET n == nodes[i]
          p == nodes[n.parent]
          before == heap[p.board]
          after == heap[n.board]
      IN  /\ n.move \in LegalColumns(before)
          /\ after = [before EXCEPT ![LowestEmpty(before, n.move)][n.move] = n.player]
          /\ n.player = (IF PieceCount(before) % 2 = 0 THEN AI_PIECE ELSE PLAYER_PIECE)
          /\ PieceCount(after) = PieceCount(before) + 1
          /\ p.parent # NoneNode => (n.player \in Pieces /\ p.player \in Pieces /\ n.player # p.player)

\* on a root board with an odd number of pieces, whose children hold
\* PLAYER_PIECE, the tree holds a node two moves below the root
C17_Witness ==
  /\ \E i \in 1 .. Len(nodes) :
       nodes[i].parent # NoneNode /\ nodes[nodes[i].parent].parent # NoneNode
  /\ \E i \in 1 .. Len(nodes) :
       nodes[i].parent = root /\ nodes[i].player = PLAYER_PIECE

BestUctChildCalled == pc = "select" /\ pc' # "expand"

UctWellDefined ==
  BestUctChildCalled =>
    /\ nodes[node].visits >= 1
    /\ nodes[node].children # <<>>
    /\ \A k \in 1 .. Len(nodes[node].children) :
         nodes[nodes[node].children[k].node].visits >= 1
    /\ pc' = "select"
    /\ node' \in {nodes[node].children[k].node : k \in 1 .. Len(nodes[node].children)}

\* C18: whenever selection calls best_uct_child on a node, the node has
\* visits >= 1 and at least one child, every child has visits >= 1, and the
\* call returns one of the children without raising.
C18_UctWellDefined == [][UctWellDefined]_vars

\* selection has descended two levels: the current node is a grandchild of
\* the root reached in the selection phase
C18_Witness ==
  /\ pc = "select"
  /\ node # NoneNode
  /\ nodes[node].parent # NoneNode
  /\ nodes[nodes[node].parent].parent = root

\* the visits of the first k children of node n, added up
RECURSIVE KidVisits(_, _)
KidVisits(n, k) ==
  IF k = 0 THEN 0 ELSE nodes[n.children[k].node].visits + KidVisits(n, k - 1)

\* C19: visit accounting.  At the end of every iteration, a root whose
\* board is not terminal has as many visits as its children together, every
\* other node whose board is not terminal has one visit more than its
\* children together, and a node whose board is terminal has no children.
C19_VisitAccounting ==
  BetweenIterations =>
    \A i \in 1 .. Len(nodes) :
      LET n == nodes[i]
      IN  IF GameOver(heap[n.board]) THEN n.children = <<>>
          ELSE n.visits = (IF i = root THEN 0 ELSE 1) + KidVisits(n, Len(n.children))

\* an iteration has ended with a node below the root that has been visited
\* through to its children, next to a node whose board is terminal
C19_Witness ==
  /\ BetweenIterations
  /\ \E i \in 1 .. Len(nodes) :
       nodes[i].parent # NoneNode /\ nodes[i].visits >= 2 /\ nodes[i].children # <<>>
  /\ \E i \in 1 .. Len(nodes) :
       GameOver(heap[nodes[i].board]) /\ nodes[i].visits >= 1

\* a step leaves everything but the counters of an existing node as it was,
\* its untried moves and children aside, which only shrink and only grow
NodeFrame(i) ==
  /\ nodes'[i].board = nodes[i].board
  /\ nodes[i].board \in 1 .. Len(heap')
  /\ heap'[nodes[i].board] = heap[nodes[i].board]
  /\ nodes'[i].move = nodes[i].move
  /\ nodes'[i].player = nodes[i].player
  /\ nodes'[i].parent = nodes[i].parent
  /\ Elems(nodes'[i].untried_moves) \subseteq Elems(nodes[i].untried_moves)
  /\ Len(nodes'[i].untried_moves) <= Len(nodes[i].untried_moves)
  /\ Len(nodes'[i].children) >= Len(nodes[i].children)
  /\ \A k \in 1 .. Len(nodes[i].children) : nodes'[i].children[k] = nodes[i].children[k]

\* the counters of an existing node move only in backpropagation, only up
\* by one, and only on the path from the simulated node to the root
CounterFrame(i) ==
  IF pc = "backprop" /\ i \in PathFrom(nodes, node)
  THEN /\ nodes'[i].visits \in {nodes[i].visits, nodes[i].visits + 1}
       /\ nodes'[i].wins \in {nodes[i].wins, nodes[i].wins + 1}
  ELSE /\ nodes'[i].visits = nodes[i].visits
       /\ nodes'[i].wins = nodes[i].wins

NodesFramed ==
  /\ Len(nodes') >= Len(nodes)
  /\ \A i \in 1 .. Len(nodes) : NodeFrame(i) /\ CounterFrame(i)

\* C20: frame and monotonicity.  In every step, every node of the tree
\* stays in the tree with its board (reference and cells), move, player and
\* parent unchanged; its untried_moves loses elements at most and its
\* children gains entries at most; its visits and wins change only in a
\* backpropagation step, only by +1, and only if the node is on the path
\* from the simulated node to the root.
C20_NodeFrame == [][NodesFramed]_vars

\* a backpropagation is about to credit a path while the tree holds a node
\* off that path that was visited before
C20_Witness ==
  /\ pc = "backprop"
  /\ \E i \in 1 .. Len(nodes) :
       /\ i \notin PathFrom(nodes, node)
       /\ nodes[i].visits >= 1
       /\ nodes[i].children # <<>>

\* the UCT score of the k-th child of the current node:
\* wins/visits + 1.4 * sqrt(ln(parent.visits)/visits)
ScoreOfKid(k) == Uct(nodes[node].visits, nodes[nodes[node].children[k].node])

\* the child of the current node with the highest score, the first
\* inserted among equals
IsUctChoice(id) ==
  \E k \in 1 .. Len(nodes[node].children) :
    /\ id = nodes[node].children[k].node
    /\ \A j \in 1 .. Len(nodes[node].children) : ScoreOfKid(j) <= ScoreOfKid(k)
    /\ \A j \in 1 .. (k - 1) : ScoreOfKid(j) < ScoreOfKid(k)

SelectionStep ==
  /\ (pc # "select" /\ pc' = "select") => node' = root
  /\ pc = "select" => pc' \in {"select", "expand"}
  /\ (pc = "select" /\ pc' = "select") =>
       /\ ~GameOver(heap[nodes[node].board])
       /\ LegalColumns(heap[nodes[node].board]) \subseteq ChildKeys(nodes[node])
       /\ nodes[node].untried_moves = <<>>
       /\ IsUctChoice(node')
  /\ (pc = "select" /\ pc' = "expand") =>
       /\ node' = node
       /\ GameOver(heap[nodes[node].board]) \/ nodes[node].untried_moves # <<>>
  /\ pc = "expand" =>
       Len(nodes') = Len(nodes) + (IF GameOver(heap[nodes[node].board]) THEN 0 ELSE 1)
  /\ pc \notin {"call", "expand"} => Len(nodes') = Len(nodes)

\* C14: selection.  Every iteration's descent starts at the root; it moves
\* from a node to a child only while the node's board is not terminal and
\* the node is fully expanded, and then to the child with the highest UCT
\* score, the first inserted among equals; it stops at the first node that
\* is terminal or has an untried move; the tree grows by one node in the
\* iteration when the stopping node is not terminal and by none when it is.
C14_Selection == [][SelectionStep]_vars

\* selection has moved to a child that was visited twice before and is not
\* the first inserted one of its parent
C14_Witness ==
  /\ pc = "select"
  /\ node # NoneNode
  /\ nodes[node].parent # NoneNode
  /\ nodes[nodes[node].parent].children[1].node # node
  /\ nodes[node].visits >= 2

\* a board with AI_PIECE on row 0 of columns 0 .. 2 and column 3 open for
\* the fourth
OneMoveFromAIWin(board) ==
  /\ \A c \in 0 .. 2 : board[0][c] = AI_PIECE
  /\ board[0][3] = EMPTY
  /\ ~GameOver(board)

\* C15: terminal short-circuit.  In a search on a board one move from a
\* horizontal win of AI_PIECE (row 0, columns 0 .. 2, column 3 open), the
\* root's child for column 3 is a position won by AI_PIECE, and at the end
\* of every iteration all its visits are wins.
C15_ShortCircuit ==
  (nodes # <<>> /\ OneMoveFromAIWin(heap[root_board])) =>
    \A k \in 1 .. Len(RootKids) :
      RootKids[k].move = 3 =>
        /\ HasFour(heap[nodes[RootKids[k].node].board], AI_PIECE)
        /\ BetweenIterations => nodes[RootKids[k].node].wins = nodes[RootKids[k].node].visits

Opponent(piece) == IF piece = AI_PIECE THEN PLAYER_PIECE ELSE AI_PIECE

\* the board simulate_random_playout was called on, and the piece it was
\* told moves next
PlayoutStart == heap[nodes[node].board]
PlayoutFirst == IF PieceCount(PlayoutStart) % 2 = 0 THEN AI_PIECE ELSE PLAYER_PIECE

\* the drops of the running playout so far
PlayoutDrops == PieceCount(heap[b]) - PieceCount(PlayoutStart)

\* a playout that is running has dropped no more pieces than the board it
\* was called on had empty cells, is to drop the given piece after an even
\* number of drops and the other after an odd number, and can go on
PlayoutBounded ==
  pc = "rollout" =>
    /\ PlayoutDrops \in 0 .. (ROW_COUNT * COLUMN_COUNT - PieceCount(PlayoutStart))
    /\ next_player = (IF PlayoutDrops % 2 = 0 THEN PlayoutFirst ELSE Opponent(PlayoutFirst))
    /\ ENABLED Next

\* one turn of the playout loop: a return exactly on a finished board, with
\* the piece that has four in a row or with None on a full board without;
\* otherwise a drop of the piece whose turn it is
PlayoutStep ==
  pc = "rollout" =>
    IF GameOver(heap[b])
    THEN /\ pc' = "backprop"
         /\ winner' \in Pieces => HasFour(heap[b], winner')
         /\ winner' \notin Pieces =>
              /\ winner' = NonePiece
              /\ LegalColumns(heap[b]) = {}
              /\ \A piece \in Pieces : ~HasFour(heap[b], piece)
    ELSE /\ pc' = "rollout"
         /\ b' = b
         /\ \E c \in LegalColumns(heap[b]) :
              heap'[b] = [heap[b] EXCEPT ![LowestEmpty(heap[b], c)][c] = next_player]
         /\ next_player' = Opponent(next_player)

\* C21: rollout termination and outcome.  A playout on a bottom-packed
\* board drops at most 42 - pieceCount(board) pieces, alternating from the
\* given next player, and never gets stuck; it returns a piece only if that
\* piece has four in a row on the final board, and None only if the final
\* board is full and neither piece has four in a row.
C21_Rollout ==
  /\ [](BottomPacked(heap[root_board]) => PlayoutBounded)
  /\ [][BottomPacked(heap[root_board]) => PlayoutStep]_vars

\* a playout has dropped three pieces and the board it filled is a draw
C21_Witness ==
  /\ pc = "rollout"
  /\ PlayoutDrops >= 3
  /\ LegalColumns(heap[b]) = {}
  /\ \A piece \in Pieces : ~HasFour(heap[b], piece)

\* C22: turn parity in the game loop.  Each time the loop calls
\* MCTS_Search the board holds an even number of pieces, and the children
\* of the search's root are moves of AI_PIECE, the piece the loop drops.
C22_TurnParity ==
  /\ pc = "call" => PieceCount(heap[root_board]) % 2 = 0
  /\ \A i \in 1 .. Len(nodes) : nodes[i].parent = root => nodes[i].player = AI_PIECE

\* C23: the game loop calls MCTS_Search only on a board with a legal
\* column: whenever it is the AI's turn and the game is not over, the
\* board has an open column.
C23_SearchHasMove ==
  /\ (pc = "loop" /\ turn = AI /\ ~game_over) => LegalColumns(heap[root_board]) # {}
  /\ pc = "call" => LegalColumns(heap[root_board]) # {}

\* C24: MARMS account invariant, in both front-ends: after any sequence of
\* simulate_trade calls every account has wins + losses = total <= MAX_TRADES,
\* len(history) = total + 1 and DEATH_EQ <= equity <= TARGET_EQ, its status
\* is 'finished' exactly when its equity is TARGET_EQ and 'failed' exactly
\* when its equity is DEATH_EQ; and a simulate_trade call on an account whose
\* status is 'finished' or 'failed' changes none of its fields.
AccountSound(acc) ==
  /\ acc.wins + acc.losses = acc.total
  /\ acc.total <= MAX_TRADES
  /\ acc.history_len = acc.total + 1
  /\ DEATH_EQ <= acc.equity /\ acc.equity <= TARGET_EQ
  /\ acc.status = "finished" <=> acc.equity = TARGET_EQ
  /\ acc.status = "failed" <=> acc.equity = DEATH_EQ

AccountFrozen ==
  \A k \in 1 .. Len(accounts) :
    (sim.pc = "trade" /\ accounts[k].status \in {"finished", "failed"})
      => accounts'[k] = accounts[k]

C24_AccountInvariant ==
  /\ [](\A k \in 1 .. Len(accounts) : AccountSound(accounts[k]))
  /\ [][AccountFrozen]_vars

\* one account stopped out while the other went on trading up to MAX_TRADES,
\* simulate_trade being called on both in every round
C24_Witness ==
  /\ Len(accounts) = NUM_ACCOUNTS
  /\ accounts[1].status = "failed"
  /\ accounts[2].total = MAX_TRADES
  /\ accounts[1].total < accounts[2].total
  /\ sim.pc = "check"

\* C25: MARMS completion.  In each of the two front-ends, whatever the
\* win/loss outcomes, a simulation that keeps running (not paused, not
\* reset) eventually has all_finished = True: every account leaves the
\* status 'running', those that reach MAX_TRADES trades included.
C25_Completion == <>(sim.all_finished)
=============================================================================
